---- MODULE Spec2Model ----
(***************************************************************************)
(* wither_derive/src/model_struct.rs: extraction of the struct-level       *)
(* `model` attributes of a `#[derive(Model)]` target into a                *)
(* MetaModelStructData { collection_name, skip_serde_checks }.             *)
(*                                                                         *)
(* Strings that the code inspects or builds character by character (the    *)
(* collection name, the target ident) are sequences of one-character       *)
(* strings; identifiers that are only compared are TLA+ strings.           *)
(* A panic!() is recorded as pc = "panicked" with the message that was     *)
(* raised; no MetaModelStructData is returned in that case.                *)
(***************************************************************************)
EXTENDS Integers, Sequences, FiniteSets, TLC

\* ------------------------------------------------------------------ bounds
\* Largest number of attributes on the target struct.
MaxAttrs == 2
\* Largest number of nested entries, summed over all attributes of the struct.
MaxEntries == 2

\* ------------------------------------------------------- the input domain
\* One-character strings.
UpperChars == {"U", "B", "C"}
Vowels == {"a", "e", "i", "o", "u"}

\* Identifiers of target structs (syn::Ident, CamelCase Rust type names).
TypeNames ==
    { <<"U", "s", "e", "r">>,
      <<"B", "o", "x">>,
      <<"C", "i", "t", "y">>,
      <<"B", "o", "y">>,
      <<"U", "s", "e", "r", "B", "o", "x">> }

\* String literal values used in attributes ("" , "ab", "c", "false").
StrEmpty == << >>
StrAB == <<"a", "b">>
StrC == <<"c">>
StrFalse == <<"f", "a", "l", "s", "e">>
Str42 == <<"4", "2">>

\* syn::Lit: its variant and its source text / decoded value.
LitStr(v) == [kind |-> "Str", value |-> v]
LitInt(v) == [kind |-> "Int", value |-> v]
LitBool(v) == [kind |-> "Bool", value |-> v]
NoLit == [kind |-> "None", value |-> << >>]

\* syn::NestedMeta: Meta(Word | List | NameValue) or Literal.
MetaWord(id) == [nested |-> "Meta", kind |-> "Word", ident |-> id, lit |-> NoLit]
MetaNameValue(id, l) == [nested |-> "Meta", kind |-> "NameValue", ident |-> id, lit |-> l]
MetaList(id) == [nested |-> "Meta", kind |-> "List", ident |-> id, lit |-> NoLit]
NestedLiteral(l) == [nested |-> "Literal", kind |-> "None", ident |-> "", lit |-> l]

\* The entries a list-shaped attribute body may hold.
Entries ==
    { MetaWord("skip_serde_checks"),
      MetaWord("foo"),
      MetaNameValue("collection_name", LitStr(StrAB)),
      MetaNameValue("collection_name", LitStr(StrC)),
      MetaNameValue("collection_name", LitStr(StrEmpty)),
      MetaNameValue("collection_name", LitInt(Str42)),
      MetaNameValue("bar", LitStr(StrC)),
      MetaNameValue("bar", LitBool(StrFalse)),
      MetaNameValue("skip_serde_checks", LitStr(StrFalse)),
      MetaList("index"),
      NestedLiteral(LitStr(StrC)) }

RECURSIVE SeqsUpTo(_, _)
SeqsUpTo(S, n) ==
    IF n = 0 THEN { << >> }
    ELSE LET shorter == SeqsUpTo(S, n - 1)
         IN shorter \cup { Append(s, e) : s \in shorter, e \in S }

Bodies == SeqsUpTo(Entries, MaxEntries)

\* syn::Attribute.  kind = "None": interpret_meta() gives None (the tokens are
\* not a structured meta form); otherwise the kind of syn::Meta it gives.
Attr(n, k, b) == [name |-> n, kind |-> k, nested |-> b]

Attributes ==
    { Attr(n, "None", << >>) : n \in {"model", "serde"} }
    \cup { Attr(n, k, << >>) : n \in {"model", "serde", "doc"}, k \in {"Word", "NameValue"} }
    \cup { Attr("model", "List", b) : b \in Bodies }
    \cup { Attr("serde", "List", b) : b \in { c \in Bodies : Len(c) <= 1 } }

\* ----------------------------------------------------------------- state
VARIABLES
    attrs,         \* the attributes the fold has consumed so far, in order
    target_ident,  \* the target struct's ident (read by the defaulting pass)
    data,          \* the accumulated MetaModelStructData
    pc,            \* "fold" | "done" | "panicked"
    panic          \* the panic raised, if any

vars == <<attrs, target_ident, data, pc, panic>>

\* panic messages
NoPanic == [msg |-> "", ident |-> ""]
Raise(m, id) == [msg |-> m, ident |-> id]

\* the result of a step: the (possibly mutated) struct data and the panic raised
Ok(sd) == [data |-> sd, panic |-> NoPanic]
Panicked(sd, m, id) == [data |-> sd, panic |-> Raise(m, id)]

\* #[derive(Default)]: collection_name = "", skip_serde_checks = false
Default == [collection_name |-> StrEmpty, skip_serde_checks |-> FALSE]

\* ------------------------------------------------- Inflector (line 40)
Lower(c) ==
    CASE c = "U" -> "u"
      [] c = "B" -> "b"
      [] c = "C" -> "c"
      [] OTHER -> c

\* snake case: lower-case everything, a "_" before each inner upper-case letter
RECURSIVE to_snake_case(_)
to_snake_case(s) ==
    IF s = << >> THEN << >>
    ELSE LET front == SubSeq(s, 1, Len(s) - 1)
             c == s[Len(s)]
         IN IF c \in UpperChars /\ front # << >>
            THEN to_snake_case(front) \o <<"_", Lower(c)>>
            ELSE to_snake_case(front) \o <<Lower(c)>>

\* English plural of the last word
to_plural(s) ==
    LET n == Len(s)
    IN IF n = 0 THEN <<"s">>
       ELSE IF s[n] = "x" THEN s \o <<"e", "s">>
       ELSE IF s[n] = "y" /\ n > 1 /\ s[n - 1] \notin Vowels \cup {"_"}
            THEN SubSeq(s, 1, n - 1) \o <<"i", "e", "s">>
       ELSE IF s[n] = "s" THEN s
       ELSE s \o <<"s">>

\* index of the last "_" of s, 1 when there is none (rfind('_').unwrap_or(0))
RECURSIVE rfind_underscore(_, _)
rfind_underscore(s, i) ==
    IF i = 0 THEN 1
    ELSE IF s[i] = "_" THEN i
    ELSE rfind_underscore(s, i - 1)

\* table case: snake case with the last word pluralized
to_table_case(s) ==
    LET snaked == to_snake_case(s)
        p == rfind_underscore(snaked, Len(snaked))
    IN SubSeq(snaked, 1, p - 1) \o to_plural(SubSeq(snaked, p, Len(snaked)))

\* ----------------------------------------------------- the option handlers
\* a handle_ident_attr that flips the flag instead of setting it
handle_ident_attr_toggle(ident, struct_data) ==
    IF ident = "skip_serde_checks"
    THEN Ok([struct_data EXCEPT !.skip_serde_checks = ~struct_data.skip_serde_checks])
    ELSE Panicked(struct_data, "UNRECOGNIZED", ident)

\* handle_ident_attr (lines 86-94)
handle_ident_attr(ident, struct_data) ==
    IF ident = "skip_serde_checks"
    THEN Ok([struct_data EXCEPT !.skip_serde_checks = TRUE])
    ELSE Panicked(struct_data, "UNRECOGNIZED", ident)

\* a handle_kv_attr without the zero-length check
handle_kv_attr_no_len_check(kv, struct_data) ==
    IF kv.lit.kind = "Str"
    THEN IF kv.ident = "collection_name"
         THEN Ok([struct_data EXCEPT !.collection_name = kv.lit.value])
         ELSE Panicked(struct_data, "UNRECOGNIZED", kv.ident)
    ELSE Panicked(struct_data, "ONLY_STRING_LITERALS", "")

\* a handle_kv_attr that takes the text of any literal as the value
handle_kv_attr_any_lit(kv, struct_data) ==
    IF kv.ident = "collection_name"
    THEN LET assigned == [struct_data EXCEPT !.collection_name = kv.lit.value]
         IN IF Len(assigned.collection_name) < 1
            THEN Panicked(assigned, "ZERO_LENGTH", "collection_name")
            ELSE Ok(assigned)
    ELSE Panicked(struct_data, "UNRECOGNIZED", kv.ident)

\* a handle_kv_attr that lets unknown keys pass
handle_kv_attr_ignore_unknown(kv, struct_data) ==
    IF kv.lit.kind = "Str"
    THEN IF kv.ident = "collection_name"
         THEN LET assigned == [struct_data EXCEPT !.collection_name = kv.lit.value]
              IN IF Len(assigned.collection_name) < 1
                 THEN Panicked(assigned, "ZERO_LENGTH", "collection_name")
                 ELSE Ok(assigned)
         ELSE Ok(struct_data)
    ELSE Panicked(struct_data, "ONLY_STRING_LITERALS", "")

\* a handle_kv_attr that keeps a collection_name that is already set
handle_kv_attr_first_wins(kv, struct_data) ==
    IF kv.lit.kind = "Str"
    THEN IF kv.ident = "collection_name"
         THEN IF Len(kv.lit.value) < 1
              THEN Panicked(struct_data, "ZERO_LENGTH", "collection_name")
              ELSE IF Len(struct_data.collection_name) > 0
              THEN Ok(struct_data)
              ELSE Ok([struct_data EXCEPT !.collection_name = kv.lit.value])
         ELSE Panicked(struct_data, "UNRECOGNIZED", kv.ident)
    ELSE Panicked(struct_data, "ONLY_STRING_LITERALS", "")

\* handle_kv_attr (lines 67-84)
handle_kv_attr(kv, struct_data) ==
    IF kv.lit.kind = "Str"
    THEN IF kv.ident = "collection_name"
         THEN LET assigned == [struct_data EXCEPT !.collection_name = kv.lit.value]
              IN IF Len(assigned.collection_name) < 1
                 THEN Panicked(assigned, "ZERO_LENGTH", "collection_name")
                 ELSE Ok(assigned)
         ELSE Panicked(struct_data, "UNRECOGNIZED", kv.ident)
    ELSE Panicked(struct_data, "ONLY_STRING_LITERALS", "")

\* the body of unpack_model_attr's iterator chain for one nested entry
\* (lines 53-61): filter_map, then the for_each closure
unpack_nested(nested_meta, struct_data) ==
    IF nested_meta.nested # "Meta"
    THEN Panicked(struct_data, "MODEL_ATTR_FORM", "")
    ELSE CASE nested_meta.kind = "Word" -> handle_ident_attr(nested_meta.ident, struct_data)
           [] nested_meta.kind = "NameValue" -> handle_kv_attr(nested_meta, struct_data)
           [] OTHER -> Panicked(struct_data, "MODEL_STRUCT_ATTRS", "")

\* the lazy iteration over list.nested from entry i on (lines 52-62)
RECURSIVE unpack_from(_, _, _)
unpack_from(nested, i, struct_data) ==
    IF i > Len(nested) THEN Ok(struct_data)
    ELSE LET r == unpack_nested(nested[i], struct_data)
         IN IF r.panic # NoPanic THEN r
            ELSE unpack_from(nested, i + 1, r.data)

\* unpack_model_attr (lines 48-65)
unpack_model_attr(meta, struct_data) ==
    IF meta.kind = "List"
    THEN unpack_from(meta.nested, 1, struct_data)
    ELSE Panicked(struct_data, "MODEL_ATTR_FORM", "")

\* a fold closure that unpacks every structured attribute, whatever its name
fold_fn_any_name(acc, attr) ==
    IF attr.kind = "None" THEN Ok(acc)
    ELSE unpack_model_attr(attr, acc)

\* the fold closure of MetaModelStructData::new (lines 20-36)
fold_fn(acc, attr) ==
    IF attr.kind = "None" THEN Ok(acc)
    ELSE IF attr.name = "model" THEN unpack_model_attr(attr, acc)
    ELSE Ok(acc)

\* a defaulting pass that forgets to pluralize
finalize_snake_only(d, ident) ==
    IF Len(d.collection_name) = 0
    THEN [d EXCEPT !.collection_name = to_snake_case(ident)]
    ELSE d

\* a defaulting pass that does not look at the collected name
finalize_always(d, ident) ==
    [d EXCEPT !.collection_name = to_plural(to_table_case(ident))]

\* the defaulting pass of MetaModelStructData::new (lines 38-42)
finalize(d, ident) ==
    IF Len(d.collection_name) = 0
    THEN [d EXCEPT !.collection_name = to_plural(to_table_case(ident))]
    ELSE d

\* attrs.iter().fold(acc, fold_fn) from attribute i on; stops at a panic
RECURSIVE fold_from(_, _, _)
fold_from(as, i, acc) ==
    IF i > Len(as) THEN Ok(acc)
    ELSE LET r == fold_fn(acc, as[i])
         IN IF r.panic # NoPanic THEN r
            ELSE fold_from(as, i + 1, r.data)

\* MetaModelStructData::new as a function of its arguments (lines 18-43)
new(as, ident) ==
    LET r == fold_from(as, 1, Default)
    IN IF r.panic # NoPanic THEN r
       ELSE Ok(finalize(r.data, ident))

\* --------------------------------------------------------- the transitions
RECURSIVE TotalEntries(_)
TotalEntries(as) ==
    IF as = << >> THEN 0
    ELSE Len(as[Len(as)].nested) + TotalEntries(SubSeq(as, 1, Len(as) - 1))

Init ==
    /\ attrs = << >>
    /\ target_ident = << >>
    /\ data = Default
    /\ pc = "fold"
    /\ panic = NoPanic

\* one iteration of the fold over the next attribute of the struct.  The
\* attribute is drawn when the iterator yields it: a panic unwinds out of the
\* fold, so the attributes after a panicking one are never read.
Step(attr) ==
    /\ Len(attrs) < MaxAttrs
    /\ TotalEntries(attrs) + Len(attr.nested) <= MaxEntries
    /\ LET r == fold_fn(data, attr)
       IN /\ data' = r.data
          /\ panic' = r.panic
          /\ pc' = IF r.panic = NoPanic THEN "fold" ELSE "panicked"
    /\ attrs' = Append(attrs, attr)
    /\ UNCHANGED target_ident

\* line 24: the attribute is not a structured meta form
FoldUninterpreted ==
    /\ pc = "fold"
    /\ \E attr \in Attributes : attr.kind = "None" /\ Step(attr)

\* line 34: a structured attribute that is not named `model`
FoldOther ==
    /\ pc = "fold"
    /\ \E attr \in Attributes : attr.kind # "None" /\ attr.name # "model" /\ Step(attr)

\* lines 30-33: a `model` attribute is unpacked into the accumulator
FoldModel ==
    /\ pc = "fold"
    /\ \E attr \in Attributes : attr.kind # "None" /\ attr.name = "model" /\ Step(attr)

\* lines 38-42: the iterator is exhausted; default the collection name, return
Return ==
    /\ pc = "fold"
    /\ \E ident \in TypeNames :
        /\ target_ident' = ident
        /\ data' = finalize(data, ident)
    /\ pc' = "done"
    /\ UNCHANGED <<attrs, panic>>

Next == FoldUninterpreted \/ FoldOther \/ FoldModel \/ Return

Spec == Init /\ [][Next]_vars

\* ------------------------------------------------ vocabulary of the claims
\* a structured attribute named `model`
IsModelAttr(a) == a.kind # "None" /\ a.name = "model"
IsModelList(a) == IsModelAttr(a) /\ a.kind = "List"

\* the attribute sequence without the attributes that are unstructured or
\* not named `model`
Significant(as) == SelectSeq(as, IsModelAttr)

\* a `model` attribute whose body is not a list, seen as one event
NotListEvent == [nested |-> "NotList", kind |-> "None", ident |-> "", lit |-> NoLit]

\* what the `model` attributes hold, in order: the entries of the list-shaped
\* ones, and one NotListEvent for each one that is not list-shaped
RECURSIVE ModelEvents(_)
ModelEvents(as) ==
    IF as = << >> THEN << >>
    ELSE LET a == Head(as)
         IN (IF IsModelList(a) THEN a.nested
             ELSE IF IsModelAttr(a) THEN <<NotListEvent>>
             ELSE << >>) \o ModelEvents(Tail(as))

IsSkipWord(e) == e.nested = "Meta" /\ e.kind = "Word" /\ e.ident = "skip_serde_checks"
IsNameValue(e) == e.nested = "Meta" /\ e.kind = "NameValue"
IsCollectionName(e) == IsNameValue(e) /\ e.ident = "collection_name"
IsCollectionNameStr(e) == IsCollectionName(e) /\ e.lit.kind = "Str"

\* an entry of the recognized option surface: the bare word skip_serde_checks
\* or collection_name = "<non-empty string>"
Recognized(e) == IsSkipWord(e) \/ (IsCollectionNameStr(e) /\ e.lit.value # << >>)

Indices(evs, P(_)) == { i \in 1..Len(evs) : P(evs[i]) }
Max(S) == CHOOSE m \in S : \A k \in S : k <= m
Min(S) == CHOOSE m \in S : \A k \in S : m <= k

Offending(e) == ~Recognized(e)
HasOffending(as) == Indices(ModelEvents(as), Offending) # {}
\* the first entry (or non-list `model` attribute) in order that is not accepted
FirstOffending(as) == ModelEvents(as)[Min(Indices(ModelEvents(as), Offending))]

\* the value of the last collection_name = "<string>" entry among evs
HasCollectionName(evs) == Indices(evs, IsCollectionNameStr) # {}
LastCollectionName(evs) == evs[Max(Indices(evs, IsCollectionNameStr))].lit.value

HasSkipWord(evs) == Indices(evs, IsSkipWord) # {}

Last(as) == as[Len(as)]

TypeOK ==
    /\ pc \in {"fold", "done", "panicked"}
    /\ Len(attrs) <= MaxAttrs
    /\ data.skip_serde_checks \in BOOLEAN
    /\ (pc = "panicked") = (panic # NoPanic)

\* ------------------------------------------------------------------ claims
\* C1: when processing succeeds and no `model` attribute holds a
\* collection_name entry, the returned collection_name is
\* to_plural(to_table_case(target_ident)), the default derived from the type's
\* own name alone.
C1_DefaultFromTypeName ==
    (pc = "done" /\ Indices(ModelEvents(attrs), IsCollectionName) = {})
        => data.collection_name = to_plural(to_table_case(target_ident))

\* UserBox with #[model(skip_serde_checks)] is stored in "user_boxes".
C1_Witness ==
    /\ pc = "done"
    /\ HasSkipWord(ModelEvents(attrs))
    /\ target_ident = <<"U", "s", "e", "r", "B", "o", "x">>
    /\ data.collection_name = <<"u", "s", "e", "r", "_", "b", "o", "x", "e", "s">>

\* C2 as stated: whenever processing succeeds, the returned collection_name
\* equals the value X of every collection_name = "X" entry (X non-empty) that
\* the `model` attributes hold, whatever the other entries are.
C2_EveryEntryWins ==
    pc = "done" =>
        \A i \in Indices(ModelEvents(attrs), IsCollectionNameStr) :
            ModelEvents(attrs)[i].lit.value # << >>
                => data.collection_name = ModelEvents(attrs)[i].lit.value

\* C2 as amended: whenever processing succeeds and the `model` attributes hold
\* a collection_name entry, the returned collection_name is exactly the value
\* of the last such entry in order, whatever the type's own name.
C2_LastEntryIsTheName ==
    (pc = "done" /\ HasCollectionName(ModelEvents(attrs)))
        => data.collection_name = LastCollectionName(ModelEvents(attrs))

C2_Witness ==
    /\ pc = "done"
    /\ Cardinality(Indices(ModelEvents(attrs), IsCollectionNameStr)) = 2
    /\ ModelEvents(attrs)[1].lit.value = StrAB
    /\ data.collection_name = StrC
    /\ target_ident = <<"B", "o", "x">>

\* the attributes with every bare word skip_serde_checks but the first removed
RECURSIVE DropRepeated(_, _)
DropRepeated(es, seen) ==
    IF es = << >> THEN << >>
    ELSE LET e == Head(es)
         IN IF IsSkipWord(e)
            THEN (IF seen THEN << >> ELSE <<e>>) \o DropRepeated(Tail(es), TRUE)
            ELSE <<e>> \o DropRepeated(Tail(es), seen)

RECURSIVE SkipOnce(_, _)
SkipOnce(as, seen) ==
    IF as = << >> THEN << >>
    ELSE LET a == Head(as)
         IN IF IsModelList(a)
            THEN <<[a EXCEPT !.nested = DropRepeated(a.nested, seen)]>>
                 \o SkipOnce(Tail(as), seen \/ HasSkipWord(a.nested))
            ELSE <<a>> \o SkipOnce(Tail(as), seen)

C3_State ==
    /\ pc \in {"fold", "done"}
        => (data.skip_serde_checks <=> HasSkipWord(ModelEvents(attrs)))
    /\ pc = "done" => new(SkipOnce(attrs, FALSE), target_ident) = Ok(data)

\* C3: after every successfully processed prefix of the attributes, and in the
\* returned value, skip_serde_checks is true exactly when the bare word occurs
\* in a `model` attribute; no step sets it back to false; and the result is
\* the one obtained with all but the first occurrence of the word removed.
C3_SkipSerdeChecks ==
    []C3_State /\ [][data.skip_serde_checks => data'.skip_serde_checks]_vars

C3_Witness ==
    /\ pc = "done"
    /\ Cardinality(Indices(ModelEvents(attrs), IsSkipWord)) = 2
    /\ data.skip_serde_checks

\* the struct-level attribute of tests/run-pass/derive-model.rs, line 17
ValidDataModel0Attr ==
    Attr("model", "List",
         << MetaNameValue("collection_name", LitStr(StrAB)),
            MetaNameValue("skip_serde_checks", LitStr(StrFalse)) >>)

\* C4: #[model(collection_name="X", skip_serde_checks="false")] is processed
\* without error and yields collection_name = X.
C4_RunPassAttrAccepted ==
    (attrs # << >> /\ Last(attrs) = ValidDataModel0Attr)
        => /\ pc # "panicked"
           /\ data.collection_name = StrAB

\* C5: a `model` attribute holding collection_name = "" always aborts, and
\* when that entry is the first offending one the panic is the zero-length one.
C5_EmptyNameAborts ==
    (\E i \in Indices(ModelEvents(attrs), IsCollectionNameStr) :
            ModelEvents(attrs)[i].lit.value = << >>)
        => /\ pc = "panicked"
           /\ (IsCollectionNameStr(FirstOffending(attrs))
                  => panic = Raise("ZERO_LENGTH", "collection_name"))

\* collection_name = "" followed by collection_name = "c" in the same list
C5_Witness ==
    /\ pc = "panicked"
    /\ panic.msg = "ZERO_LENGTH"
    /\ Last(attrs).nested =
          << MetaNameValue("collection_name", LitStr(StrEmpty)),
             MetaNameValue("collection_name", LitStr(StrC)) >>

\* the events before the first offending one
BeforeFirstOffending(as) ==
    SubSeq(ModelEvents(as), 1, Min(Indices(ModelEvents(as), Offending)) - 1)

\* C6: when the first offending entry is collection_name with a non-string
\* literal, processing aborts with the only-string-literals panic and the
\* collection_name is still what the entries before it made it: the literal
\* is not assigned and no default is substituted.
C6_NonStringLiteralAborts ==
    (HasOffending(attrs)
        /\ IsCollectionName(FirstOffending(attrs))
        /\ FirstOffending(attrs).lit.kind # "Str")
        => /\ pc = "panicked"
           /\ panic.msg = "ONLY_STRING_LITERALS"
           /\ data.collection_name # FirstOffending(attrs).lit.value
           /\ data.collection_name =
                 IF HasCollectionName(BeforeFirstOffending(attrs))
                 THEN LastCollectionName(BeforeFirstOffending(attrs))
                 ELSE StrEmpty

C6_Witness ==
    /\ pc = "panicked"
    /\ panic.msg = "ONLY_STRING_LITERALS"
    /\ Last(attrs).nested =
          << MetaNameValue("collection_name", LitStr(StrAB)),
             MetaNameValue("collection_name", LitInt(Str42)) >>
    /\ data.collection_name = StrAB

IsUnknownWord(e) == e.nested = "Meta" /\ e.kind = "Word" /\ e.ident # "skip_serde_checks"
IsUnknownKey(e) == IsNameValue(e) /\ e.ident # "collection_name"

C8_IgnoredAttrsHaveNoEffect ==
    /\ pc = "fold" => fold_from(Significant(attrs), 1, Default) = Ok(data)
    /\ pc = "done" => new(Significant(attrs), target_ident) = Ok(data)
    /\ pc = "panicked" =>
          \A ident \in TypeNames : new(Significant(attrs), ident).panic = panic

\* #[serde(collection_name = "")] before #[model(collection_name = "c")]
C8_Witness ==
    /\ pc = "done"
    /\ Len(attrs) = 2
    /\ attrs[1] = Attr("serde", "List", << MetaNameValue("collection_name", LitStr(StrEmpty)) >>)
    /\ IsModelList(attrs[2])
    /\ data.collection_name = StrC

\* C9: a `model` attribute that is not list-shaped aborts with the list-form
\* panic (MODEL_ATTR_FORM); an entry that is a nested list or a bare literal
\* aborts with the entry-kind panic (MODEL_STRUCT_ATTRS), not the list-form one.
C9_StructuralErrors ==
    HasOffending(attrs) =>
        LET e == FirstOffending(attrs)
        IN /\ e = NotListEvent
                => (pc = "panicked" /\ panic.msg = "MODEL_ATTR_FORM")
           /\ (e.nested = "Literal" \/ (e.nested = "Meta" /\ e.kind = "List"))
                => (pc = "panicked" /\ panic.msg = "MODEL_STRUCT_ATTRS")

\* one fold step over a list-shaped `model` attribute whose entries are all
\* recognized: no panic, the last collection_name entry of the attribute (if
\* any) becomes the name, otherwise the name is kept; the flag is kept or set
C10_Step ==
    (pc = "fold" /\ Len(attrs') = Len(attrs) + 1
        /\ IsModelList(Last(attrs'))
        /\ Indices(Last(attrs').nested, Offending) = {})
        => /\ pc' = "fold"
           /\ data'.collection_name =
                 IF HasCollectionName(Last(attrs').nested)
                 THEN LastCollectionName(Last(attrs').nested)
                 ELSE data.collection_name
           /\ data'.skip_serde_checks =
                 (data.skip_serde_checks \/ HasSkipWord(Last(attrs').nested))

\* C10: `model` attributes are folded in order, last write wins per field,
\* repeating an option raises no error, and an attribute that omits an option
\* leaves the value an earlier one set; the returned name is a name so set.
C10_LastWriteWins ==
    [][C10_Step
        /\ (pc' = "done" /\ data.collection_name # << >>
               => data' = data)]_vars

\* #[model(collection_name = "ab")] then #[model(skip_serde_checks)]
C10_Witness ==
    /\ pc = "done"
    /\ Len(attrs) = 2
    /\ attrs[1].nested = << MetaNameValue("collection_name", LitStr(StrAB)) >>
    /\ attrs[2].nested = << MetaWord("skip_serde_checks") >>
    /\ IsModelList(attrs[1]) /\ IsModelList(attrs[2])
    /\ data = [collection_name |-> StrAB, skip_serde_checks |-> TRUE]
====
